---- MODULE Spec2Model ----
(***************************************************************************)
(* Model of the task-tracker CLI (src/main.go).                            *)
(*                                                                         *)
(* src/main.go holds two programs over the same tasks.json:                *)
(*   - lines 1-324:   the load-once program: main loads the collection,    *)
(*     registers a deferred save, runs one command, and saves on return;   *)
(*   - lines 326-698: the per-call program: every operation loads the      *)
(*     collection itself and saves it itself after a successful mutation.  *)
(* A run is one process: one command line.  Runs follow each other and     *)
(* communicate only through the persisted file.                            *)
(*                                                                         *)
(* Time: a time.Time is modelled as [wall, mono]: the wall-clock instant   *)
(* and whether the value carries a monotonic reading (time.Now() does, a   *)
(* value parsed from JSON does not).  The file stores the instant only.    *)
(***************************************************************************)
EXTENDS Integers, Sequences, FiniteSets, TLC

\* ---------------------------------------------------------------- bounds
\* processes run one after the other, starting from a missing file
MaxRuns == 3
\* the wall clock reads 0..MaxTime
MaxTime == 1
\* the IDs a user types are 0..MaxId
MaxId == 3
\* a file written by hand holds at most MaxFileTasks tasks
MaxFileTasks == 3

\* what time.Now() may read: the wall clock is an input of the process, and
\* nothing in the program orders two readings
Times == 0..MaxTime
\* the descriptions a user types
Descs == {"a", "b"}
\* the IDs a user types, when the argument is a number
ArgIds == 0..MaxId

\* ------------------------------------------------------------- constants
StatusTodo == "todo"
StatusInProgress == "in-progress"
StatusDone == "done"

\* ---------------------------------------------------------------- errors
NoErr == [kind |-> "none", id |-> 0, val |-> ""]
NotFoundErr(id) == [kind |-> "notfound", id |-> id, val |-> ""]
InvalidFilterErr(filter) == [kind |-> "invalidfilter", id |-> 0, val |-> filter]
ReadErr == [kind |-> "read", id |-> 0, val |-> ""]
ParseErr == [kind |-> "parse", id |-> 0, val |-> ""]
WriteErr == [kind |-> "write", id |-> 0, val |-> ""]
InvalidArgErr == [kind |-> "invalidarg", id |-> 0, val |-> ""]

\* ------------------------------------------------------------ data model
Now(t) == [wall |-> t, mono |-> TRUE]

Task(id, description, status, createdAt, updatedAt) ==
    [ID |-> id, Description |-> description, Status |-> status,
     CreatedAt |-> createdAt, UpdatedAt |-> updatedAt]

TaskList(tasks, nextId) == [Tasks |-> tasks, NextID |-> nextId]

\* the value of the global before main assigns it
NilTaskList == TaskList(<<>>, 0)

\* ------------------------------------------------------------ the store
\* The persisted file: missing, zero-length, unparsable, or a JSON document.
\* A JSON document may lack the nextId key (hasNextId = FALSE).
MissingFile == [kind |-> "missing", tasks |-> <<>>, nextId |-> 0, hasNextId |-> FALSE]
EmptyFile == [kind |-> "empty", tasks |-> <<>>, nextId |-> 0, hasNextId |-> FALSE]
GarbageFile == [kind |-> "garbage", tasks |-> <<>>, nextId |-> 0, hasNextId |-> FALSE]

\* json.MarshalIndent of a TaskList: every field is written; a time is
\* written as its instant, the monotonic reading is dropped.
MarshalTask(t) ==
    [id |-> t.ID, description |-> t.Description, status |-> t.Status,
     createdAt |-> t.CreatedAt.wall, updatedAt |-> t.UpdatedAt.wall]

Marshal(tl) ==
    [kind |-> "json",
     tasks |-> [i \in 1..Len(tl.Tasks) |-> MarshalTask(tl.Tasks[i])],
     nextId |-> tl.NextID, hasNextId |-> TRUE]

\* json.Unmarshal into the pre-filled TaskList{Tasks: []Task{}, NextID: 1}:
\* a key missing from the document leaves the field as it was.
UnmarshalTask(j) ==
    Task(j.id, j.description, j.status,
         [wall |-> j.createdAt, mono |-> FALSE],
         [wall |-> j.updatedAt, mono |-> FALSE])

Unmarshal(f) ==
    TaskList([i \in 1..Len(f.tasks) |-> UnmarshalTask(f.tasks[i])],
             IF f.hasNextId THEN f.nextId ELSE 1)

\* mutant: the fresh collection is built without NextID: 1
loadTasksZeroNextID(f, readOk) ==
    IF f.kind = "missing" THEN [tl |-> TaskList(<<>>, 0), err |-> NoErr]
    ELSE IF ~readOk THEN [tl |-> NilTaskList, err |-> ReadErr]
    ELSE IF f.kind = "empty" THEN [tl |-> TaskList(<<>>, 0), err |-> NoErr]
    ELSE IF f.kind = "garbage" THEN [tl |-> NilTaskList, err |-> ParseErr]
    ELSE [tl |-> Unmarshal(f), err |-> NoErr]

\* loadTasks: readOk is whether os.ReadFile succeeds.
loadTasks(f, readOk) ==
    IF f.kind = "missing" THEN [tl |-> TaskList(<<>>, 1), err |-> NoErr]
    ELSE IF ~readOk THEN [tl |-> NilTaskList, err |-> ReadErr]
    ELSE IF f.kind = "empty" THEN [tl |-> TaskList(<<>>, 1), err |-> NoErr]
    ELSE IF f.kind = "garbage" THEN [tl |-> NilTaskList, err |-> ParseErr]
    ELSE [tl |-> Unmarshal(f), err |-> NoErr]

\* saveTasks: os.WriteFile either succeeds, or fails leaving the file as it
\* was (it could not be opened), zero-length (opened with O_TRUNC, nothing
\* written) or cut short (a partial write, which does not parse).
WriteOutcomes == {"ok", "unchanged", "truncated", "partial"}

saveTasks(f, tl, outcome) ==
    IF outcome = "ok" THEN [file |-> Marshal(tl), err |-> NoErr]
    ELSE IF outcome = "unchanged" THEN [file |-> f, err |-> WriteErr]
    ELSE IF outcome = "truncated" THEN [file |-> EmptyFile, err |-> WriteErr]
    ELSE [file |-> GarbageFile, err |-> WriteErr]

\* ------------------------------------------------------- task operations
RECURSIVE findFrom(_, _, _)
findFrom(tasks, id, i) ==
    IF i > Len(tasks) THEN 0
    ELSE IF tasks[i].ID = id THEN i
    ELSE findFrom(tasks, id, i + 1)

\* findTaskByID: the index of the first task with that ID, 0 for nil
findTaskByID(tl, id) == findFrom(tl.Tasks, id, 1)

\* mutant: the new ID is taken from the number of tasks, not from NextID
addTaskCountsTasks(tl, description, now) ==
    LET task == Task(Len(tl.Tasks) + 1, description, StatusTodo, Now(now), Now(now))
    IN [tl |-> TaskList(Append(tl.Tasks, task), tl.NextID + 1),
        err |-> NoErr, id |-> task.ID]

\* mutant: the counter is not advanced after the append
addTaskKeepsNextID(tl, description, now) ==
    LET task == Task(tl.NextID, description, StatusTodo, Now(now), Now(now))
    IN [tl |-> TaskList(Append(tl.Tasks, task), tl.NextID),
        err |-> NoErr, id |-> task.ID]

addTask(tl, description, now) ==
    LET task == Task(tl.NextID, description, StatusTodo, Now(now), Now(now))
    IN [tl |-> TaskList(Append(tl.Tasks, task), tl.NextID + 1),
        err |-> NoErr, id |-> task.ID]

\* mutant: the update stamps both timestamps
updateTaskStampsCreated(tl, id, description, now) ==
    LET i == findTaskByID(tl, id)
    IN IF i = 0 THEN [tl |-> tl, err |-> NotFoundErr(id)]
       ELSE [tl |-> [tl EXCEPT !.Tasks[i].Description = description,
                               !.Tasks[i].CreatedAt = Now(now),
                               !.Tasks[i].UpdatedAt = Now(now)],
             err |-> NoErr]

updateTask(tl, id, description, now) ==
    LET i == findTaskByID(tl, id)
    IN IF i = 0 THEN [tl |-> tl, err |-> NotFoundErr(id)]
       ELSE [tl |-> [tl EXCEPT !.Tasks[i].Description = description,
                               !.Tasks[i].UpdatedAt = Now(now)],
             err |-> NoErr]

RECURSIVE findLastFrom(_, _, _)
findLastFrom(tasks, id, i) ==
    IF i < 1 THEN 0
    ELSE IF tasks[i].ID = id THEN i
    ELSE findLastFrom(tasks, id, i - 1)

\* mutant: the loop has no break, so the last match is the one removed
deleteTaskNoBreak(tl, id) ==
    LET i == findLastFrom(tl.Tasks, id, Len(tl.Tasks))
    IN IF i = 0 THEN [tl |-> tl, err |-> NotFoundErr(id)]
       ELSE [tl |-> [tl EXCEPT !.Tasks = SubSeq(tl.Tasks, 1, i - 1)
                                         \o SubSeq(tl.Tasks, i + 1, Len(tl.Tasks))],
             err |-> NoErr]

\* mutant: the removal is done after the loop, at the index the loop ended
\* on, before found is examined
deleteTaskRemovesAfterLoop(tl, id) ==
    LET i == findFrom(tl.Tasks, id, 1)
        at == IF i = 0 THEN Len(tl.Tasks) ELSE i
        rest == SubSeq(tl.Tasks, 1, at - 1) \o SubSeq(tl.Tasks, at + 1, Len(tl.Tasks))
    IN IF i = 0 THEN [tl |-> [tl EXCEPT !.Tasks = rest], err |-> NotFoundErr(id)]
       ELSE [tl |-> [tl EXCEPT !.Tasks = rest], err |-> NoErr]

deleteTask(tl, id) ==
    LET i == findFrom(tl.Tasks, id, 1)
    IN IF i = 0 THEN [tl |-> tl, err |-> NotFoundErr(id)]
       ELSE [tl |-> [tl EXCEPT !.Tasks = SubSeq(tl.Tasks, 1, i - 1)
                                         \o SubSeq(tl.Tasks, i + 1, Len(tl.Tasks))],
             err |-> NoErr]

markTask(tl, id, status, now) ==
    LET i == findTaskByID(tl, id)
    IN IF i = 0 THEN [tl |-> tl, err |-> NotFoundErr(id)]
       ELSE [tl |-> [tl EXCEPT !.Tasks[i].Status = status,
                               !.Tasks[i].UpdatedAt = Now(now)],
             err |-> NoErr]

\* the keys of the filters map of listTasks
filters == {"", StatusTodo, StatusInProgress, StatusDone}

match(filter, t) == IF filter = "" THEN TRUE ELSE t.Status = filter

\* mutant: a matching task is put in front of those already collected
RECURSIVE filterLoopPrepends(_, _, _, _)
filterLoopPrepends(tasks, filter, i, filteredTasks) ==
    IF i > Len(tasks) THEN filteredTasks
    ELSE filterLoopPrepends(tasks, filter, i + 1,
                            IF match(filter, tasks[i])
                            THEN <<tasks[i]>> \o filteredTasks ELSE filteredTasks)

RECURSIVE filterLoop(_, _, _, _)
filterLoop(tasks, filter, i, filteredTasks) ==
    IF i > Len(tasks) THEN filteredTasks
    ELSE filterLoop(tasks, filter, i + 1,
                    IF match(filter, tasks[i])
                    THEN Append(filteredTasks, tasks[i]) ELSE filteredTasks)

\* listTasks of the load-once program; out is the rows it prints
listTasks(tl, filter) ==
    IF Len(tl.Tasks) = 0 THEN [err |-> NoErr, out |-> <<>>]
    ELSE IF filter \notin filters THEN [err |-> InvalidFilterErr(filter), out |-> <<>>]
    ELSE [err |-> NoErr, out |-> filterLoop(tl.Tasks, filter, 1, <<>>)]

\* listTasks of the per-call program, after its load: the filter is
\* examined inside the loop, once per task
RECURSIVE switchLoop(_, _, _, _)
switchLoop(tasks, filter, i, filteredTasks) ==
    IF i > Len(tasks) THEN [err |-> NoErr, out |-> filteredTasks]
    ELSE IF filter = ""
         THEN switchLoop(tasks, filter, i + 1, Append(filteredTasks, tasks[i]))
    ELSE IF filter \in {"todo", "in-progress", "done"}
         THEN switchLoop(tasks, filter, i + 1,
                         IF tasks[i].Status = filter
                         THEN Append(filteredTasks, tasks[i]) ELSE filteredTasks)
    ELSE [err |-> InvalidFilterErr(filter), out |-> <<>>]

listTasksPerCall(tl, filter) ==
    IF Len(tl.Tasks) = 0 THEN [err |-> NoErr, out |-> <<>>]
    ELSE switchLoop(tl.Tasks, filter, 1, <<>>)

\* ------------------------------------------------------------------ state
VARIABLES
    file,        \* the persisted tasks.json
    fileIssued,  \* history: the IDs add assigned on the way to the file's content
    runsLeft,    \* how many more processes the user will start
    prog,        \* which program this run executes: "loadOnce" or "perCall"
    pc,          \* position of the run: "start", "loaded", "returning", "exited"
    taskList,    \* the collection in memory
    issued,      \* history: the IDs add assigned on the way to taskList
    exitCode,    \* the process's exit code, -1 while it runs
    fileAtStart, \* history: the file when the run started
    pre,         \* history: the collection the command was applied to
    res,         \* history: the command of this run and what it returned
    loadErr,     \* history: what loadTasks returned in this run
    saveErr,     \* history: what saveTasks returned in this run
    reads,       \* history: calls of loadTasks in this run
    writes       \* history: calls of saveTasks in this run

vars == <<file, fileIssued, runsLeft, prog, pc, taskList, issued, exitCode,
          fileAtStart, pre, res, loadErr, saveErr, reads, writes>>

Progs == {"loadOnce", "perCall"}

Result(cmd, id, text, err, out, newId) ==
    [cmd |-> cmd, id |-> id, text |-> text, err |-> err, out |-> out, newId |-> newId]

NoResult == Result("", 0, "", NoErr, <<>>, 0)

\* the arguments a user may type as a filter: the three statuses, none, and
\* a word that is no status
FilterArgs == {"", StatusTodo, StatusInProgress, StatusDone, "bogus"}

\* the first process starts on file f, and n processes may run in all
Start(f, n) ==
    /\ file = f
    /\ fileIssued = <<>>
    /\ runsLeft = n - 1
    /\ prog \in Progs
    /\ pc = "start"
    /\ taskList = NilTaskList
    /\ issued = <<>>
    /\ exitCode = -1
    /\ fileAtStart = f
    /\ pre = NilTaskList
    /\ res = NoResult
    /\ loadErr = NoErr
    /\ saveErr = NoErr
    /\ reads = 0
    /\ writes = 0

\* tasks.json does not exist when the program is first run
Init == Start(MissingFile, MaxRuns)

\* Files written by hand: any document of the schema.  IDs may repeat, a
\* status may be a word outside the enumeration, nextId may be missing or
\* not above the IDs.
HandStatuses == {StatusTodo, "blocked"}

HandTasks ==
    [id : 1..2, description : {"a"}, status : HandStatuses,
     createdAt : {0}, updatedAt : {0}]

HandFiles ==
    {MissingFile, EmptyFile, GarbageFile} \cup
    {[kind |-> "json", tasks |-> ts, nextId |-> n[1], hasNextId |-> n[2]] :
        ts \in UNION {[1..k -> HandTasks] : k \in 0..MaxFileTasks},
        n \in {<<0, FALSE>>, <<1, TRUE>>, <<3, TRUE>>}}

\* one process runs on a file written by hand
InitAny == \E f \in HandFiles : Start(f, 1)

\* the history of the collection that loadTasks returns from file f
LoadedIssued(f, fi) == IF f.kind = "json" THEN fi ELSE <<>>

\* the history of the file's content after saveTasks
SavedIssued(fi, mem, outcome) ==
    IF outcome = "ok" THEN mem
    ELSE IF outcome = "unchanged" THEN fi
    ELSE <<>>

\* ------------------------------------------- the load-once program (main)
\* main, lines 243-248: load, fatal on error
Load ==
    /\ pc = "start" /\ prog = "loadOnce"
    /\ \E readOk \in BOOLEAN :
         LET l == loadTasks(file, readOk)
         IN /\ reads' = reads + 1
            /\ loadErr' = l.err
            /\ taskList' = l.tl
            /\ IF l.err # NoErr
               THEN /\ pc' = "exited" /\ exitCode' = 1
                    /\ UNCHANGED issued
               ELSE /\ pc' = "loaded" /\ exitCode' = -1
                    /\ issued' = LoadedIssued(file, fileIssued)
    /\ UNCHANGED <<file, fileIssued, runsLeft, prog, fileAtStart, pre, res,
                   saveErr, writes>>

\* fatal / os.Exit(1): the process ends at once, deferred calls do not run
\* mutant: fatal prints and returns to main, which then falls off its end,
\* so the deferred save runs
FatalReturns(tl, r) ==
    /\ pc' = "returning" /\ exitCode' = -1
    /\ res' = r
    /\ pre' = taskList
    /\ taskList' = tl
    /\ UNCHANGED <<file, fileIssued, runsLeft, prog, issued,
                   fileAtStart, loadErr, saveErr, reads, writes>>

Fatal(tl, r) ==
    /\ pc' = "exited" /\ exitCode' = 1
    /\ res' = r
    /\ pre' = taskList
    /\ taskList' = tl
    /\ UNCHANGED <<file, fileIssued, runsLeft, prog, issued,
                   fileAtStart, loadErr, saveErr, reads, writes>>

\* the command returned nil: main falls off its end with collection tl
Return(tl, r, iss) ==
    /\ pc' = "returning" /\ exitCode' = -1
    /\ res' = r
    /\ pre' = taskList
    /\ taskList' = tl
    /\ issued' = iss
    /\ UNCHANGED <<file, fileIssued, runsLeft, prog,
                   fileAtStart, loadErr, saveErr, reads, writes>>

\* main, lines 257-260: no command
CmdNone ==
    /\ pc = "loaded"
    /\ Fatal(taskList, Result("", 0, "", InvalidArgErr, <<>>, 0))

\* main, case "add"
CmdAdd ==
    /\ pc = "loaded"
    /\ \E len \in 2..3, description \in Descs, now \in Times :
         IF len < 3
         THEN Fatal(taskList, Result("add", 0, "", InvalidArgErr, <<>>, 0))
         ELSE LET r == addTask(taskList, description, now)
              IN IF r.err # NoErr
                 THEN Fatal(r.tl, Result("add", 0, description, r.err, <<>>, 0))
                 ELSE Return(r.tl, Result("add", 0, description, r.err, <<>>, r.id),
                             Append(issued, r.id))

\* main, case "update"; numeric is whether os.Args[2] parses as an integer
CmdUpdate ==
    /\ pc = "loaded"
    /\ \E len \in 3..4, numeric \in BOOLEAN, id \in ArgIds,
          description \in Descs, now \in Times :
         IF len < 4 \/ ~numeric
         THEN Fatal(taskList, Result("update", 0, "", InvalidArgErr, <<>>, 0))
         ELSE LET r == updateTask(taskList, id, description, now)
              IN IF r.err # NoErr
                 THEN Fatal(r.tl, Result("update", id, description, r.err, <<>>, 0))
                 ELSE Return(r.tl, Result("update", id, description, r.err, <<>>, 0),
                             issued)

\* main, case "delete"
CmdDelete ==
    /\ pc = "loaded"
    /\ \E len \in 2..3, numeric \in BOOLEAN, id \in ArgIds :
         IF len < 3 \/ ~numeric
         THEN Fatal(taskList, Result("delete", 0, "", InvalidArgErr, <<>>, 0))
         ELSE LET r == deleteTask(taskList, id)
              IN IF r.err # NoErr
                 THEN Fatal(r.tl, Result("delete", id, "", r.err, <<>>, 0))
                 ELSE Return(r.tl, Result("delete", id, "", r.err, <<>>, 0), issued)

\* main, cases "mark-in-progress" and "mark-done"
CmdMark ==
    /\ pc = "loaded"
    /\ \E len \in 2..3, numeric \in BOOLEAN, id \in ArgIds,
          status \in {StatusInProgress, StatusDone}, now \in Times :
         IF len < 3 \/ ~numeric
         THEN Fatal(taskList, Result("mark", 0, status, InvalidArgErr, <<>>, 0))
         ELSE LET r == markTask(taskList, id, status, now)
              IN IF r.err # NoErr
                 THEN Fatal(r.tl, Result("mark", id, status, r.err, <<>>, 0))
                 ELSE Return(r.tl, Result("mark", id, status, r.err, <<>>, 0), issued)

\* main, case "list"; without os.Args[2] the filter is ""
CmdList ==
    /\ pc = "loaded"
    /\ \E filter \in FilterArgs :
         LET r == listTasks(taskList, filter)
         IN IF r.err # NoErr
            THEN Fatal(taskList, Result("list", 0, filter, r.err, <<>>, 0))
            ELSE Return(taskList, Result("list", 0, filter, r.err, r.out, 0), issued)

\* main, default case
CmdUnknown ==
    /\ pc = "loaded"
    /\ Fatal(taskList, Result("unknown", 0, "", InvalidArgErr, <<>>, 0))

\* main, lines 251-255: the deferred save runs when main returns; a failed
\* save prints a warning, and the process ends as any returning main does
DeferredSave ==
    /\ pc = "returning"
    /\ \E outcome \in WriteOutcomes :
         LET s == saveTasks(file, taskList, outcome)
         IN /\ file' = s.file
            /\ saveErr' = s.err
            /\ fileIssued' = SavedIssued(fileIssued, issued, outcome)
    /\ writes' = writes + 1
    /\ pc' = "exited"
    /\ exitCode' = 0
    /\ UNCHANGED <<runsLeft, prog, taskList, issued, fileAtStart, pre, res,
                   loadErr, reads>>

\* the user starts the next process
NewRun ==
    /\ pc = "exited"
    /\ runsLeft > 0
    /\ runsLeft' = runsLeft - 1
    /\ prog' \in Progs
    /\ pc' = "start"
    /\ taskList' = NilTaskList
    /\ issued' = <<>>
    /\ exitCode' = -1
    /\ fileAtStart' = file
    /\ pre' = NilTaskList
    /\ res' = NoResult
    /\ loadErr' = NoErr
    /\ saveErr' = NoErr
    /\ reads' = 0
    /\ writes' = 0
    /\ UNCHANGED <<file, fileIssued>>

\* ------------------------------------------------- the per-call program
\* What one operation of the per-call program did: the file it leaves, the
\* collection it loaded (pre) and ended with (tl), the error it returned.
Outcome(f, preTl, tl, err, out, newId, lErr, sErr, w) ==
    [file |-> f, pre |-> preTl, tl |-> tl, err |-> err, out |-> out,
     newId |-> newId, loadErr |-> lErr, saveErr |-> sErr, writes |-> w]

LoadFailed(f, l) == Outcome(f, l.tl, l.tl, l.err, <<>>, 0, l.err, NoErr, 0)

addTaskPerCall(f, description, now, readOk, outcome) ==
    LET l == loadTasks(f, readOk)
    IN IF l.err # NoErr THEN LoadFailed(f, l)
       ELSE LET r == addTask(l.tl, description, now)
                s == saveTasks(f, r.tl, outcome)
            IN Outcome(s.file, l.tl, r.tl, s.err, <<>>, r.id, NoErr, s.err, 1)

updateTaskPerCall(f, id, description, now, readOk, outcome) ==
    LET l == loadTasks(f, readOk)
    IN IF l.err # NoErr THEN LoadFailed(f, l)
       ELSE LET r == updateTask(l.tl, id, description, now)
            IN IF r.err # NoErr
               THEN Outcome(f, l.tl, r.tl, r.err, <<>>, 0, NoErr, NoErr, 0)
               ELSE LET s == saveTasks(f, r.tl, outcome)
                    IN Outcome(s.file, l.tl, r.tl, s.err, <<>>, 0, NoErr, s.err, 1)

deleteTaskPerCall(f, id, readOk, outcome) ==
    LET l == loadTasks(f, readOk)
    IN IF l.err # NoErr THEN LoadFailed(f, l)
       ELSE LET r == deleteTask(l.tl, id)
            IN IF r.err # NoErr
               THEN Outcome(f, l.tl, r.tl, r.err, <<>>, 0, NoErr, NoErr, 0)
               ELSE LET s == saveTasks(f, r.tl, outcome)
                    IN Outcome(s.file, l.tl, r.tl, s.err, <<>>, 0, NoErr, s.err, 1)

markTaskPerCall(f, id, status, now, readOk, outcome) ==
    LET l == loadTasks(f, readOk)
    IN IF l.err # NoErr THEN LoadFailed(f, l)
       ELSE LET r == markTask(l.tl, id, status, now)
            IN IF r.err # NoErr
               THEN Outcome(f, l.tl, r.tl, r.err, <<>>, 0, NoErr, NoErr, 0)
               ELSE LET s == saveTasks(f, r.tl, outcome)
                    IN Outcome(s.file, l.tl, r.tl, s.err, <<>>, 0, NoErr, s.err, 1)

listTasksLoadPerCall(f, filter, readOk) ==
    LET l == loadTasks(f, readOk)
    IN IF l.err # NoErr THEN LoadFailed(f, l)
       ELSE LET r == listTasksPerCall(l.tl, filter)
            IN Outcome(f, l.tl, l.tl, r.err, r.out, 0, NoErr, NoErr, 0)

\* main of the per-call program rejected the command line: nothing was loaded
Rejected(cmd) ==
    /\ pc' = "exited" /\ exitCode' = 1
    /\ res' = Result(cmd, 0, "", InvalidArgErr, <<>>, 0)
    /\ UNCHANGED <<file, fileIssued, runsLeft, prog, taskList, issued, fileAtStart,
                   pre, loadErr, saveErr, reads, writes>>

\* main of the per-call program after the operation returned o: exit code 1
\* when the operation returned an error, 0 otherwise
Exit(o, cmd, id, text, outcome) ==
    /\ pc' = "exited"
    /\ exitCode' = IF o.err # NoErr THEN 1 ELSE 0
    /\ file' = o.file
    /\ taskList' = o.tl
    /\ pre' = o.pre
    /\ res' = Result(cmd, id, text, o.err, o.out, o.newId)
    /\ loadErr' = o.loadErr
    /\ saveErr' = o.saveErr
    /\ reads' = reads + 1
    /\ writes' = writes + o.writes
    /\ issued' = IF o.loadErr # NoErr THEN <<>>
                 ELSE IF o.newId # 0
                      THEN Append(LoadedIssued(file, fileIssued), o.newId)
                      ELSE LoadedIssued(file, fileIssued)
    /\ fileIssued' = IF o.writes = 0 THEN fileIssued
                     ELSE SavedIssued(fileIssued, issued', outcome)
    /\ UNCHANGED <<runsLeft, prog, fileAtStart>>

PerCallNone ==
    /\ pc = "start" /\ prog = "perCall"
    /\ Rejected("")

PerCallAdd ==
    /\ pc = "start" /\ prog = "perCall"
    /\ \E len \in 2..3, description \in Descs, now \in Times,
          readOk \in BOOLEAN, outcome \in WriteOutcomes :
         IF len < 3 THEN Rejected("add")
         ELSE Exit(addTaskPerCall(file, description, now, readOk, outcome),
                   "add", 0, description, outcome)

PerCallUpdate ==
    /\ pc = "start" /\ prog = "perCall"
    /\ \E len \in 3..4, numeric \in BOOLEAN, id \in ArgIds, description \in Descs,
          now \in Times, readOk \in BOOLEAN, outcome \in WriteOutcomes :
         IF len < 4 \/ ~numeric THEN Rejected("update")
         ELSE Exit(updateTaskPerCall(file, id, description, now, readOk, outcome),
                   "update", id, description, outcome)

PerCallDelete ==
    /\ pc = "start" /\ prog = "perCall"
    /\ \E len \in 2..3, numeric \in BOOLEAN, id \in ArgIds,
          readOk \in BOOLEAN, outcome \in WriteOutcomes :
         IF len < 3 \/ ~numeric THEN Rejected("delete")
         ELSE Exit(deleteTaskPerCall(file, id, readOk, outcome),
                   "delete", id, "", outcome)

PerCallMark ==
    /\ pc = "start" /\ prog = "perCall"
    /\ \E len \in 2..3, numeric \in BOOLEAN, id \in ArgIds,
          status \in {StatusInProgress, StatusDone}, now \in Times,
          readOk \in BOOLEAN, outcome \in WriteOutcomes :
         IF len < 3 \/ ~numeric THEN Rejected("mark")
         ELSE Exit(markTaskPerCall(file, id, status, now, readOk, outcome),
                   "mark", id, status, outcome)

PerCallList ==
    /\ pc = "start" /\ prog = "perCall"
    /\ \E filter \in FilterArgs, readOk \in BOOLEAN :
         Exit(listTasksLoadPerCall(file, filter, readOk), "list", 0, filter, "ok")

PerCallUnknown ==
    /\ pc = "start" /\ prog = "perCall"
    /\ Rejected("unknown")

\* ------------------------------------------------------- specification
\* the steps of one process
Step ==
    \/ Load
    \/ CmdNone
    \/ CmdAdd
    \/ CmdUpdate
    \/ CmdDelete
    \/ CmdMark
    \/ CmdList
    \/ CmdUnknown
    \/ DeferredSave
    \/ PerCallNone
    \/ PerCallAdd
    \/ PerCallUpdate
    \/ PerCallDelete
    \/ PerCallMark
    \/ PerCallList
    \/ PerCallUnknown

Next == Step \/ NewRun

Spec == Init /\ [][Next]_vars

SpecAny == InitAny /\ [][Step]_vars

\* ---------------------------------------------------------------- claims
IDs(tasks) == {tasks[i].ID : i \in 1..Len(tasks)}

Increasing(ids) == \A i, j \in 1..Len(ids) : i < j => ids[i] < ids[j]

DistinctIDs(tasks) ==
    \A i, j \in 1..Len(tasks) : i # j => tasks[i].ID # tasks[j].ID

DistinctFileIDs(tasks) ==
    \A i, j \in 1..Len(tasks) : i # j => tasks[i].id # tasks[j].id

\* the run loaded a collection and its command reached the operation
OpRan ==
    /\ pc \in {"returning", "exited"}
    /\ loadErr = NoErr
    /\ res.cmd \notin {"", "unknown"}
    /\ res.err.kind # "invalidarg"

FreshTaskList == [Tasks |-> <<>>, NextID |-> 1]

\* C1: starting from a missing file, after any sequence of operations the
\* records of the collection, in memory and in the file, have pairwise
\* distinct IDs, and the IDs that add assigned on the way to the collection
\* are strictly increasing, deleted ones included.
C1_IdsDistinctAndIncreasing ==
    /\ DistinctIDs(taskList.Tasks)
    /\ Increasing(issued)
    /\ DistinctFileIDs(file.tasks)
    /\ Increasing(fileIssued)

\* an add that follows the deletion of an earlier task
C1_Witness ==
    /\ OpRan /\ res.cmd = "add" /\ res.err = NoErr
    /\ Len(issued) >= 2
    /\ \E k \in 1..Len(issued) : issued[k] \notin IDs(taskList.Tasks)
    /\ res.newId = issued[Len(issued)]

\* C2: a run of the load-once program whose command is list leaves the
\* collection in memory and the persisted file as they were, and writes
\* nothing.
C2_ListWritesNothing ==
    (prog = "loadOnce" /\ pc = "exited" /\ loadErr = NoErr /\ res.cmd = "list")
        => /\ taskList = pre
           /\ writes = 0
           /\ file = fileAtStart

\* C3: update, delete and mark on an ID that no record has return the
\* not-found error naming that ID and leave the collection as it was.
C3_NotFoundChangesNothing ==
    (OpRan /\ res.cmd \in {"update", "delete", "mark"} /\ res.id \notin IDs(pre.Tasks))
        => /\ res.err = [kind |-> "notfound", id |-> res.id, val |-> ""]
           /\ taskList = pre

\* a delete of an absent ID on a collection that holds tasks
C3_Witness ==
    /\ OpRan /\ res.cmd = "delete"
    /\ res.id \notin IDs(pre.Tasks)
    /\ Len(pre.Tasks) = MaxFileTasks

ValidFilters == {"", "todo", "in-progress", "done"}

\* C4: list with a non-empty filter other than todo, in-progress and done
\* returns the invalid-filter error carrying that filter, whatever the
\* collection.
C4_InvalidFilterRejected ==
    (OpRan /\ res.cmd = "list" /\ res.text \notin ValidFilters)
        => res.err = [kind |-> "invalidfilter", id |-> 0, val |-> res.text]

\* the records of tasks that a filter selects, in their order
Selected(tasks, filter) ==
    LET Wanted(t) == filter = "" \/ t.Status = filter
    IN SelectSeq(tasks, Wanted)

\* C5: list with a valid filter selects exactly the records whose status
\* equals the filter, each once and in collection order; with the empty
\* filter it selects every record.
C5_ListSelectsByStatus ==
    (OpRan /\ res.cmd = "list" /\ res.text \in ValidFilters)
        => /\ res.err = NoErr
           /\ res.out = Selected(pre.Tasks, res.text)

\* a filter that keeps two different records and drops a third
C5_Witness ==
    /\ OpRan /\ res.cmd = "list" /\ res.text = "todo"
    /\ Len(pre.Tasks) = 3
    /\ Len(res.out) = 2
    /\ res.out[1] # res.out[2]

Mutating == {"add", "update", "delete", "mark"}

\* C6: in a run of the load-once program a successful mutating command
\* has the store read once and written once, with the collection as the
\* mutation left it; and the store is written only in a run where a
\* mutating command executed.
C6_WriteOnlyAfterMutation ==
    (prog = "loadOnce" /\ pc = "exited")
        => /\ (OpRan /\ res.cmd \in Mutating /\ res.err = NoErr)
                => /\ reads = 1
                   /\ writes = 1
                   /\ (saveErr = NoErr => file = Marshal(taskList))
           /\ writes > 0 => (res.cmd \in Mutating /\ res.err = NoErr)

\* C7: a delete of an ID the collection holds removes the first record
\* with that ID and no other, keeps the other records as they were and in
\* their order, and leaves next_id alone.
C7_DeleteRemovesFirstMatch ==
    (OpRan /\ res.cmd = "delete" /\ res.id \in IDs(pre.Tasks))
        => /\ res.err.kind \in {"none", "write"}
           /\ taskList.NextID = pre.NextID
           /\ Len(taskList.Tasks) = Len(pre.Tasks) - 1
           /\ \E i \in 1..Len(pre.Tasks) :
                /\ pre.Tasks[i].ID = res.id
                /\ \A j \in 1..(i - 1) : pre.Tasks[j].ID # res.id
                /\ \A j \in 1..Len(taskList.Tasks) :
                     taskList.Tasks[j] = pre.Tasks[IF j < i THEN j ELSE j + 1]

\* a delete of an ID that two different records share, a third between them
C7_Witness ==
    /\ OpRan /\ res.cmd = "delete" /\ res.err = NoErr
    /\ Len(pre.Tasks) = 3
    /\ pre.Tasks[1].ID = res.id /\ pre.Tasks[3].ID = res.id
    /\ pre.Tasks[2].ID # res.id
    /\ pre.Tasks[1] # pre.Tasks[3]

\* the collection but for the record at index i
SameButAt(tl, preTl, i) ==
    /\ tl.NextID = preTl.NextID
    /\ Len(tl.Tasks) = Len(preTl.Tasks)
    /\ \A j \in 1..Len(preTl.Tasks) : j # i => tl.Tasks[j] = preTl.Tasks[j]
    /\ tl.Tasks[i].ID = preTl.Tasks[i].ID
    /\ tl.Tasks[i].CreatedAt = preTl.Tasks[i].CreatedAt

\* C8: an update of an ID the collection holds changes the description and
\* updated_at of the matching record and nothing else; a mark changes its
\* status and updated_at and nothing else.
C8_UpdateAndMarkFrame ==
    /\ (OpRan /\ res.cmd = "update" /\ res.id \in IDs(pre.Tasks))
          => /\ res.err.kind \in {"none", "write"}
             /\ \E i \in 1..Len(pre.Tasks) :
                  /\ pre.Tasks[i].ID = res.id
                  /\ SameButAt(taskList, pre, i)
                  /\ taskList.Tasks[i].Status = pre.Tasks[i].Status
                  /\ taskList.Tasks[i].Description = res.text
    /\ (OpRan /\ res.cmd = "mark" /\ res.id \in IDs(pre.Tasks))
          => /\ res.err.kind \in {"none", "write"}
             /\ \E i \in 1..Len(pre.Tasks) :
                  /\ pre.Tasks[i].ID = res.id
                  /\ SameButAt(taskList, pre, i)
                  /\ taskList.Tasks[i].Description = pre.Tasks[i].Description
                  /\ taskList.Tasks[i].Status = res.text

\* an update that changes a record of a collection of three
C8_Witness ==
    /\ OpRan /\ res.cmd = "update" /\ res.err = NoErr
    /\ Len(pre.Tasks) = 3
    /\ \E i \in 1..3 :
         /\ taskList.Tasks[i].Description # pre.Tasks[i].Description
         /\ taskList.Tasks[i].UpdatedAt # pre.Tasks[i].UpdatedAt
         /\ taskList.Tasks[i].Status = "blocked"

\* the collection loadTasks returned in this run (it did return one)
Loaded == IF pc = "loaded" THEN taskList ELSE pre

\* C9: loadTasks on a missing file, and on a zero-length file it can read,
\* returns no error and the collection with no record and next_id 1; an
\* add that follows makes the record with id 1, status todo and equal
\* timestamps the only record, and leaves next_id 2.
C9_EmptyStoreBootstrap ==
    /\ (reads > 0 /\ fileAtStart.kind = "missing") => loadErr = NoErr
    /\ (reads > 0 /\ fileAtStart.kind = "empty") => loadErr.kind \in {"none", "read"}
    /\ (reads > 0 /\ fileAtStart.kind \in {"missing", "empty"} /\ loadErr = NoErr)
          => /\ Loaded = FreshTaskList
             /\ (OpRan /\ res.cmd = "add")
                   => /\ res.newId = 1
                      /\ taskList.NextID = 2
                      /\ Len(taskList.Tasks) = 1
                      /\ taskList.Tasks[1].ID = 1
                      /\ taskList.Tasks[1].Status = "todo"
                      /\ taskList.Tasks[1].Description = res.text
                      /\ taskList.Tasks[1].CreatedAt = taskList.Tasks[1].UpdatedAt

\* an add in a run that found a zero-length file
C9_Witness ==
    /\ OpRan /\ res.cmd = "add" /\ res.err = NoErr
    /\ fileAtStart.kind = "empty"
    /\ Len(taskList.Tasks) = 1

\* a load, a command or a save of this run returned an error
CoreFailure == loadErr # NoErr \/ res.err # NoErr \/ saveErr # NoErr

\* C10: a run in which a core failure occurs ends with a non-zero exit
\* code: a run that ends with exit code 0 had no failure.
C10_FailureExitsNonZero ==
    (pc = "exited" /\ CoreFailure) => exitCode # 0

\* next_id is above every ID of the sequence and the IDs are distinct
WellFormed(tl) ==
    /\ \A i \in 1..Len(tl.Tasks) : tl.Tasks[i].ID < tl.NextID
    /\ DistinctIDs(tl.Tasks)

\* the run holds a collection that loadTasks returned
HoldsCollection == reads > 0 /\ loadErr = NoErr /\ pc # "start"

\* C11 as stated: whatever file was loaded, in every state of the run the
\* collection in memory has next_id above every ID and distinct IDs, and
\* next_id is not below what was loaded.
C11_AlwaysWellFormed ==
    HoldsCollection
        => /\ WellFormed(taskList)
           /\ taskList.NextID >= Loaded.NextID

\* C11 as amended: next_id is never below what was loaded; and when the
\* loaded collection has next_id above every ID and distinct IDs, so has
\* the collection after the operation.
C11_WellFormedPreserved ==
    HoldsCollection
        => /\ taskList.NextID >= Loaded.NextID
           /\ WellFormed(Loaded) => WellFormed(taskList)

\* an add on a loaded collection of two records with next_id above both
C11_Witness ==
    /\ OpRan /\ res.cmd = "add"
    /\ fileAtStart.kind = "json"
    /\ Len(pre.Tasks) = 2
    /\ WellFormed(pre)
    /\ Len(taskList.Tasks) = 3

\* the run failed before or in its command
FailurePath == loadErr # NoErr \/ res.err # NoErr

\* C12: a run of the load-once program that ends in a failure path (load
\* error, no or unknown command, missing argument, non-numeric ID,
\* not-found, invalid filter) exits before the deferred save: nothing is
\* written and the file is as it was when the run started.
C12_FailurePathWritesNothing ==
    (prog = "loadOnce" /\ pc = "exited" /\ FailurePath)
        => /\ writes = 0
           /\ file = fileAtStart
           /\ exitCode = 1

\* a list with an invalid filter on a stored collection that holds tasks
C12_Witness ==
    /\ prog = "loadOnce" /\ pc = "exited"
    /\ res.cmd = "list" /\ res.err.kind = "invalidfilter"
    /\ fileAtStart.kind = "json"
    /\ Len(fileAtStart.tasks) > 0

====
